---------------------------- MODULE Spec2Model ----------------------------
(***************************************************************************)
(* Model of scripts/xhs_to_dianping.py: the pipeline                       *)
(*   crawl_xhs_posts -> get_top_posts_from_db -> select_best_images_with_ai*)
(*   -> generate_dianping_content_with_ai -> result                        *)
(* of XhsToDianpingGenerator.run, with AIModelManager's primary (AI) and   *)
(* fallback paths.                                                         *)
(*                                                                         *)
(* Text values (database columns, URLs, AI responses) are sequences of     *)
(* one-character strings, so that split/strip/int/CAST are computed on the *)
(* characters.  SQL NULL / Python None is the value Null.                  *)
(***************************************************************************)
EXTENDS Integers, Sequences, FiniteSets, TLC

VARIABLES
    pc,               \* position of run() / of the operation under study
    config,           \* the shared `config` module's attributes
    env,              \* OPENAI_API_KEY, HAS_OPENAI, HAS_REQUESTS
    store,            \* rows of table xhs_note, in insertion order
    rows,             \* `rows` returned by async_db_conn.query(sql)
    posts,            \* self.posts
    candidates,       \* image_candidates (the list object handed to the manager)
    num_images,       \* num_images argument of the selection
    selected_images,  \* self.selected_images
    content,          \* self.generated_content
    result,           \* value returned by run()
    error,            \* exception that left run(), or NoError
    inflight,         \* backend requests issued and not yet answered
    requests,         \* requests issued by each AI operation
    selPath,          \* which path produced selected_images
    synPath,          \* which path produced content
    started           \* AI operations entered in this run

vars == << pc, config, env, store, rows, posts, candidates, num_images,
           selected_images, content, result, error, inflight, requests,
           selPath, synPath, started >>

-----------------------------------------------------------------------------
(* Bounds of the model *)

MaxRows == 2
BigRows == 101
MaxCands == 3
MaxTarget == 3

(* Literals of the program *)

CrawlMaxPosts == 100
QueryLimit == 100
PostWindow == 50
PromptCandidates == 30
ReferencePosts == 20
PromptPosts == 10
TargetImages == 9
TopPosts == 10

-----------------------------------------------------------------------------
(* Text *)

Null == << "NULL" >>
Digits == << "0", "1", "2", "3", "4", "5", "6", "7", "8", "9" >>
Whitespace == { " ", "\n" }
http == << "h", "t", "t", "p" >>

Min(a, b) == IF a <= b THEN a ELSE b

Prefix(s, n) == SubSeq(s, 1, Min(n, Len(s)))

IsDigit(c) == \E d \in 1..10 : Digits[d] = c

DigitValue(c) == (CHOOSE d \in 1..10 : Digits[d] = c) - 1

RECURSIVE ToStr(_)
ToStr(n) == IF n < 10 THEN << Digits[n + 1] >>
            ELSE Append(ToStr(n \div 10), Digits[(n % 10) + 1])

RECURSIVE DecimalValue(_)
DecimalValue(s) ==
    IF s = << >> THEN 0
    ELSE 10 * DecimalValue(SubSeq(s, 1, Len(s) - 1)) + DigitValue(s[Len(s)])

RECURSIVE LStrip(_)
LStrip(s) == IF s # << >> /\ Head(s) \in Whitespace THEN LStrip(Tail(s)) ELSE s

RECURSIVE RStrip(_)
RStrip(s) == IF s # << >> /\ s[Len(s)] \in Whitespace
             THEN RStrip(SubSeq(s, 1, Len(s) - 1)) ELSE s

Strip(s) == RStrip(LStrip(s))

StartsWith(s, p) == Len(s) >= Len(p) /\ SubSeq(s, 1, Len(p)) = p

RECURSIVE Split(_, _)
Split(s, sep) ==
    IF \A i \in 1..Len(s) : s[i] # sep THEN << s >>
    ELSE LET k == CHOOSE i \in 1..Len(s) :
                      s[i] = sep /\ \A j \in 1..(i - 1) : s[j] # sep
         IN  << SubSeq(s, 1, k - 1) >> \o Split(SubSeq(s, k + 1, Len(s)), sep)

RECURSIVE Join(_, _)
Join(parts, sep) ==
    IF parts = << >> THEN << >>
    ELSE IF Len(parts) = 1 THEN parts[1]
    ELSE parts[1] \o << sep >> \o Join(Tail(parts), sep)

Falsy(v) == v = Null \/ v = << >>

IsIntLiteral(s) == Strip(s) # << >> /\ \A i \in 1..Len(Strip(s)) : IsDigit(Strip(s)[i])

PyIntRaises(v) == ~Falsy(v) /\ ~IsIntLiteral(v)

PyInt(v) == IF Falsy(v) THEN 0 ELSE DecimalValue(Strip(v))

RECURSIVE LeadingDigits(_)
LeadingDigits(s) ==
    IF s # << >> /\ IsDigit(Head(s)) THEN << Head(s) >> \o LeadingDigits(Tail(s))
    ELSE << >>

CastUnsigned(v) == DecimalValue(LeadingDigits(LStrip(v)))


Range(s) == { s[i] : i \in 1..Len(s) }

NonBlank(s) == Strip(s) # << >>

-----------------------------------------------------------------------------
(* Values of the run *)

Keyword == "kw"

NoError == [type |-> "none", raisedBy |-> "none"]

Err(type, by) == [type |-> type, raisedBy |-> by]

NoResult == [keyword |-> "none", total_posts |-> 0, selected_images |-> << >>,
             content |-> << >>, top_posts |-> << >>]

(* AIModelManager.__init__ and the module's optional imports *)
UseCloud(e) == ~Falsy(e.openai_api_key) /\ e.HAS_OPENAI

-----------------------------------------------------------------------------
(* get_top_posts_from_db *)

(* WHERE clause of the query *)
Qualifies(row, keyword) ==
    /\ row.source_keyword = keyword
    /\ row.liked_count # Null
    /\ row.liked_count # << >>
    /\ row.image_list # Null
    /\ row.image_list # << >>

RECURSIVE Perms(_)
Perms(S) == IF S = {} THEN { << >> }
            ELSE UNION { { << i >> \o t : t \in Perms(S \ {i}) } : i \in S }

(* ORDER BY CAST(liked_count AS UNSIGNED) DESC: every order of the indices S *)
(* that is descending in the key; the order of rows of equal key is not      *)
(* specified by SQL, so each of their orders is a possible outcome.          *)
RECURSIVE SortedOrders(_, _)
SortedOrders(key, S) ==
    LET K == { key[i] : i \in S }
    IN  IF Cardinality(K) <= 1 THEN Perms(S)
        ELSE LET m == CHOOSE k \in K :
                          Cardinality({ h \in K : h > k }) = Cardinality(K) \div 2
             IN  { hi \o lo : hi \in SortedOrders(key, { i \in S : key[i] > m }),
                              lo \in SortedOrders(key, { i \in S : key[i] <= m }) }

(* the row lists the query can return: WHERE, ORDER BY, LIMIT *)
QueryResults(st, keyword, limit) ==
    LET f   == SelectSeq(st, LAMBDA r : Qualifies(r, keyword))
        key == [i \in 1..Len(f) |-> CastUnsigned(f[i].liked_count)]
    IN  { Prefix([k \in 1..Len(f) |-> f[o[k]]], limit) :
          o \in SortedOrders(key, 1..Len(f)) }

(* image_list column -> list of URLs *)
ParseImageList(v) ==
    IF Falsy(v) THEN << >>
    ELSE LET parts == Split(v, ",")
         IN  SelectSeq([i \in 1..Len(parts) |-> Strip(parts[i])],
                       LAMBDA img : img # << >>)

(* liked_count column -> int, with the try/except of the code *)
ParseLikedCount(v) == IF PyIntRaises(v) THEN 0 ELSE PyInt(v)

(* the unguarded int(...) of comment_count and collected_count *)
RowRaises(row) == PyIntRaises(row.comment_count) \/ PyIntRaises(row.collected_count)

BuildRaises(rs) == \E i \in 1..Len(rs) : RowRaises(rs[i])

BuildPost(row) ==
    [note_id         |-> row.note_id,
     desc            |-> row.desc,
     liked_count     |-> ParseLikedCount(row.liked_count),
     comment_count   |-> PyInt(row.comment_count),
     collected_count |-> PyInt(row.collected_count),
     image_list      |-> ParseImageList(row.image_list),
     note_url        |-> row.note_url]

BuildPosts(rs) == [i \in 1..Len(rs) |-> BuildPost(rs[i])]

(* faulty variant: the emptiness check is lost *)
NoPostsNeverEmpty(ps) == FALSE

(* `if not posts` of run() *)
NoPosts(ps) == ps = << >>

-----------------------------------------------------------------------------
(* select_best_images_with_ai: the candidate list *)

CandidatesOf(post) ==
    [j \in 1..Len(post.image_list) |->
        [url         |-> post.image_list[j],
         post_desc   |-> post.desc,
         liked_count |-> post.liked_count,
         post_url    |-> post.note_url]]

(* the nested loops over posts and their images *)
RECURSIVE Flatten(_)
Flatten(ps) ==
    IF ps = << >> THEN << >>
    ELSE IF Len(ps) = 1 THEN CandidatesOf(ps[1])
    ELSE LET mid == Len(ps) \div 2
         IN  Flatten(SubSeq(ps, 1, mid)) \o Flatten(SubSeq(ps, mid + 1, Len(ps)))

(* faulty variant: the window of the top posts is lost *)
AggregateAllPosts(ps) == Flatten(ps)

Aggregate(ps) == Flatten(Prefix(ps, PostWindow))

(* prompt construction: `x[:100]` on None raises TypeError *)
SliceRaises(v) == v = Null

FormatCandidatesRaises(cands) ==
    \E i \in 1..Len(cands) : SliceRaises(cands[i].post_desc)

FormatPostsRaises(ps) == \E i \in 1..Len(ps) : SliceRaises(ps[i].desc)

ReferenceContent(ps) ==
    [i \in 1..Min(ReferencePosts, Len(ps)) |->
        [desc |-> ps[i].desc, liked_count |-> ps[i].liked_count]]

-----------------------------------------------------------------------------
(* AIModelManager: parsing of the AI response *)

(* response.split / response.strip on a value that is no string *)
ResponseRaises(r) == r = Null

ParseUrls(response, n) ==
    LET lines == Split(response, "\n")
        urls  == SelectSeq([i \in 1..Len(lines) |-> Strip(lines[i])],
                           LAMBDA l : l # << >> /\ StartsWith(l, http))
    IN  Prefix(urls, n)

-----------------------------------------------------------------------------
(* AIModelManager._heuristic_image_selection *)

(* candidates.sort(key=liked_count, reverse=True): a stable merge sort *)
(* merge of two descending runs: of equal keys, those of the left run first *)
Merge(a, b) ==
    LET posA(i) == i + Cardinality({ j \in 1..Len(b) :
                                     b[j].liked_count > a[i].liked_count })
        posB(j) == j + Cardinality({ i \in 1..Len(a) :
                                     a[i].liked_count >= b[j].liked_count })
    IN  [k \in 1..(Len(a) + Len(b)) |->
            IF \E i \in 1..Len(a) : posA(i) = k
            THEN a[CHOOSE i \in 1..Len(a) : posA(i) = k]
            ELSE b[CHOOSE j \in 1..Len(b) : posB(j) = k]]

RECURSIVE SortByLikedDesc(_)
SortByLikedDesc(cands) ==
    IF Len(cands) <= 1 THEN cands
    ELSE LET mid == Len(cands) \div 2
         IN  Merge(SortByLikedDesc(SubSeq(cands, 1, mid)),
                   SortByLikedDesc(SubSeq(cands, mid + 1, Len(cands))))

(* faulty variant: seen_urls is not consulted *)
AcceptedWithoutSeen(cands, i) == NonBlank(cands[i].url)

(* The loop of the selection.  seen_urls holds exactly the URLs appended so *)
(* far, and until the break every non-blank URL met has been appended, so   *)
(* candidate i passes `url not in seen_urls and url.strip()` iff its URL is *)
(* non-blank and no earlier candidate carries it.                           *)
Accepted(cands, i) ==
    /\ NonBlank(cands[i].url)
    /\ \A j \in 1..(i - 1) : cands[j].url # cands[i].url

(* the URLs appended when the loop runs to the end of the list *)
Scan(cands) ==
    LET idx == SelectSeq([i \in 1..Len(cands) |-> i],
                         LAMBDA i : Accepted(cands, i))
    IN  [k \in 1..Len(idx) |-> cands[idx[k]].url]

(* `if len(selected) >= num_images: break` leaves the first n of them *)
HeuristicImageSelection(cands, n) ==
    Prefix(Scan(SortByLikedDesc(cands)), n)

-----------------------------------------------------------------------------
(* AIModelManager._generate_template_content: the fixed text, with the     *)
(* keyword substituted; the literal pieces are single symbols.             *)

GenerateTemplateContent(refs, keyword) ==
    << "title-prefix", keyword, "title-suffix", "\n", "\n",
       "intro-prefix", keyword, "intro-suffix", "\n",
       "sections", "\n",
       "closing-prefix", keyword, "closing-suffix", "\n", "\n", "hashtags" >>

-----------------------------------------------------------------------------
(* crawl_xhs_posts: the configuration *)

SavedConfig(cfg) ==
    [KEYWORDS                |-> cfg.KEYWORDS,
     SORT_TYPE               |-> cfg.SORT_TYPE,
     CRAWLER_MAX_NOTES_COUNT |-> cfg.CRAWLER_MAX_NOTES_COUNT,
     SAVE_DATA_OPTION        |-> cfg.SAVE_DATA_OPTION]

CrawlConfig(cfg, keyword, max_posts) ==
    [cfg EXCEPT !.KEYWORDS = keyword,
                !.SORT_TYPE = "popularity_descending",
                !.CRAWLER_MAX_NOTES_COUNT = max_posts,
                !.SAVE_DATA_OPTION = "db",
                !.CRAWLER_TYPE = "search",
                !.ENABLE_GET_IMAGES = TRUE,
                !.ENABLE_GET_COMMENTS = FALSE]

RestoreConfig(cfg, saved) ==
    [cfg EXCEPT !.KEYWORDS = saved.KEYWORDS,
                !.SORT_TYPE = saved.SORT_TYPE,
                !.CRAWLER_MAX_NOTES_COUNT = saved.CRAWLER_MAX_NOTES_COUNT,
                !.SAVE_DATA_OPTION = saved.SAVE_DATA_OPTION]

(* config after crawl_xhs_posts has returned or raised *)
ConfigAfterCrawl(cfg, keyword, max_posts) ==
    RestoreConfig(CrawlConfig(cfg, keyword, max_posts), SavedConfig(cfg))

-----------------------------------------------------------------------------
(* Inputs: what the crawler can have stored, what a backend can answer *)

urlA == http \o << "a" >>
urlB == http \o << "b" >>
urlC == http \o << "c" >>
urlZ == http \o << "z" >>     \* a URL no post carries

Row(id, liked, images) ==
    [note_id |-> id, source_keyword |-> Keyword, desc |-> << "d" >>,
     liked_count |-> liked, comment_count |-> << "4" >>,
     collected_count |-> << "1" >>, image_list |-> images, note_url |-> id]

RowSet ==
    { Row(1, << "3" >>, Join(<< urlA, urlB >>, ",")),
      Row(2, << "1", "2" >>, << " " >> \o urlA \o << " ", ",", " ", "," >> \o urlC),
      Row(3, << "5", "x" >>, urlB),
      Row(4, << >>, Join(<< urlA, urlB, urlC >>, ",")),
      Row(5, << "3" >>, << >>),
      [Row(6, << "3" >>, urlA) EXCEPT !.comment_count = << "x" >>],
      [Row(7, << "3" >>, urlA) EXCEPT !.collected_count = << "x" >>],
      [Row(8, << "3" >>, urlC) EXCEPT !.desc = Null],
      [Row(9, << "8" >>, urlA) EXCEPT !.source_keyword = "other"],
      Row(10, Null, urlA),
      Row(11, << "7" >>, << "," >>) }

(* a store larger than the query's LIMIT: likes 1..BigRows, in insertion order *)
BigStore == [i \in 1..BigRows |-> Row(100 + i, ToStr(i), urlA)]

RECURSIVE SeqsUpTo(_, _)
SeqsUpTo(S, n) ==
    IF n = 0 THEN { << >> }
    ELSE LET shorter == SeqsUpTo(S, n - 1)
         IN  shorter \cup { Append(q, x) : q \in shorter, x \in S }

Stores == SeqsUpTo(RowSet, MaxRows) \cup { BigStore }

Envs == [openai_api_key : { Null, << "s", "k" >> },
         HAS_OPENAI : BOOLEAN, HAS_REQUESTS : BOOLEAN]

Configs ==
    [KEYWORDS : { "xhs" }, SORT_TYPE : { "general" },
     CRAWLER_MAX_NOTES_COUNT : { 20 }, SAVE_DATA_OPTION : { "json" },
     CRAWLER_TYPE : { "search", "detail" },
     ENABLE_GET_IMAGES : BOOLEAN, ENABLE_GET_COMMENTS : BOOLEAN]

RECURSIVE Lines(_, _)
Lines(line, n) == IF n = 0 THEN << >>
                  ELSE IF n = 1 THEN line
                  ELSE line \o << "\n" >> \o Lines(line, n - 1)

(* what a backend call can return: text, or a value that is no string *)
Responses ==
    { Null,
      << >>,
      urlB \o << "\n" >> \o urlA,
      << " " >> \o urlA \o << " ", "\n", "x", "\n" >>,
      urlZ,
      Lines(urlA, TargetImages + 1) }

(* ways a backend call raises *)
CloudFailures == { "api error", "timeout" }
LocalFailures == { "unreachable", "http status", "timeout", "malformed json" }

-----------------------------------------------------------------------------
(* run() *)

Init ==
    /\ pc = "crawl"
    /\ config \in Configs
    /\ env \in Envs
    /\ store = << >>
    /\ rows = << >>
    /\ posts = << >>
    /\ candidates = << >>
    /\ num_images = TargetImages
    /\ selected_images = << >>
    /\ content = << >>
    /\ result = NoResult
    /\ error = NoError
    /\ inflight = {}
    /\ requests = [select |-> 0, synth |-> 0]
    /\ selPath = "none"
    /\ synPath = "none"
    /\ started = {}

(* an exception leaves run(): logged and re-raised; the db.close() of the   *)
(* finally block is taken to succeed, so the exception is the one raised.  *)
Raise(type, by) ==
    /\ pc' = "failed"
    /\ error' = Err(type, by)

(* crawl_xhs_posts(100): the crawler stores what it found *)
CrawlOk ==
    /\ pc = "crawl"
    /\ config' = ConfigAfterCrawl(config, Keyword, CrawlMaxPosts)
    /\ \E st \in Stores : store' = st
    /\ pc' = "query"
    /\ UNCHANGED << env, rows, posts, candidates, num_images, selected_images,
                    content, result, error, inflight, requests, selPath,
                    synPath, started >>

(* db.init_db() or crawler.start() raises *)
CrawlFails ==
    /\ pc = "crawl"
    /\ config' = ConfigAfterCrawl(config, Keyword, CrawlMaxPosts)
    /\ \E type \in { "init_db", "crawler.start" } : Raise(type, "crawl_xhs_posts")
    /\ UNCHANGED << env, store, rows, posts, candidates, num_images,
                    selected_images, content, result, inflight, requests,
                    selPath, synPath, started >>

(* async_db_conn.query raises *)
QueryFails ==
    /\ pc = "query"
    /\ Raise("db", "get_top_posts_from_db")
    /\ UNCHANGED << config, env, store, rows, posts, candidates, num_images,
                    selected_images, content, result, inflight, requests,
                    selPath, synPath, started >>

(* get_top_posts_from_db(100), then `if not posts` *)
GetTopPosts ==
    /\ pc = "query"
    /\ \E rs \in QueryResults(store, Keyword, QueryLimit) :
         /\ rows' = rs
         /\ IF BuildRaises(rs)
            THEN /\ Raise("ValueError", "get_top_posts_from_db")
                 /\ posts' = posts
            ELSE /\ posts' = BuildPosts(rs)
                 /\ IF NoPosts(BuildPosts(rs))
                    THEN Raise("no data", "run")
                    ELSE pc' = "select" /\ error' = error
    /\ UNCHANGED << config, env, store, candidates, num_images, selected_images,
                    content, result, inflight, requests, selPath, synPath,
                    started >>

-----------------------------------------------------------------------------
(* The backend call shared by both AI operations *)

WaitPc(op) == IF op = "select" THEN "sel_wait" ELSE "syn_wait"

(* faulty variant: a failed call is tried again *)
RetryAfterCallFailure(op) == IF op = "select" THEN "sel_backend" ELSE "syn_backend"

(* `except Exception` of the operation: where control goes after a failure *)
AfterCallFailure(op) == IF op = "select" THEN "sel_fallback" ELSE "syn_fallback"

Issue(backend, op) ==
    /\ inflight' = inflight \cup { backend }
    /\ requests' = [requests EXCEPT ![op] = @ + 1]
    /\ pc' = WaitPc(op)

(* if key and HAS_OPENAI: _call_openai, else: _call_local_model *)
CallBackend(op) ==
    IF UseCloud(env) THEN Issue("cloud", op)
    ELSE IF ~env.HAS_REQUESTS
         THEN /\ pc' = AfterCallFailure(op)
              /\ UNCHANGED << inflight, requests >>
         ELSE Issue("local", op)

(* the outstanding request raises (wrapped and re-raised by the _call_ method) *)
CallFails(op) ==
    /\ \E kind \in (IF "cloud" \in inflight THEN CloudFailures ELSE LocalFailures) :
         pc' = AfterCallFailure(op)
    /\ inflight' = {}

Assemble(ps, images, text) ==
    [keyword         |-> Keyword,
     total_posts     |-> Len(ps),
     selected_images |-> images,
     content         |-> text,
     top_posts       |-> [i \in 1..Min(TopPosts, Len(ps)) |->
                             [liked_count |-> ps[i].liked_count,
                              note_url    |-> ps[i].note_url]]]

-----------------------------------------------------------------------------
(* select_best_images_with_ai / analyze_images_content *)

SelectBestImages ==
    /\ pc = "select"
    /\ started' = started \cup { "select" }
    /\ candidates' = Aggregate(posts)
    /\ IF FormatCandidatesRaises(Prefix(Aggregate(posts), PromptCandidates))
       THEN Raise("TypeError", "analyze_images_content")
       ELSE pc' = "sel_backend" /\ error' = error
    /\ UNCHANGED << config, env, store, rows, posts, num_images, selected_images,
                    content, result, inflight, requests, selPath, synPath >>

SelBackend ==
    /\ pc = "sel_backend"
    /\ CallBackend("select")
    /\ UNCHANGED << config, env, store, rows, posts, candidates, num_images,
                    selected_images, content, result, error, selPath, synPath,
                    started >>

SelCallFails ==
    /\ pc = "sel_wait"
    /\ CallFails("select")
    /\ UNCHANGED << config, env, store, rows, posts, candidates, num_images,
                    selected_images, content, result, error, requests, selPath,
                    synPath, started >>

SelCallReturns ==
    /\ pc = "sel_wait"
    /\ inflight' = {}
    /\ \E r \in Responses :
         IF ResponseRaises(r)
         THEN /\ pc' = AfterCallFailure("select")
              /\ UNCHANGED << selected_images, selPath >>
         ELSE /\ selected_images' = ParseUrls(r, num_images)
              /\ selPath' = "ai"
              /\ pc' = "synth"
    /\ UNCHANGED << config, env, store, rows, posts, candidates, num_images,
                    content, result, error, requests, synPath, started >>

(* _heuristic_image_selection: sorts the caller's list in place *)
SelFallback ==
    /\ pc = "sel_fallback"
    /\ candidates' = SortByLikedDesc(candidates)
    /\ selected_images' = HeuristicImageSelection(candidates, num_images)
    /\ selPath' = "fallback"
    /\ pc' = "synth"
    /\ UNCHANGED << config, env, store, rows, posts, num_images, content, result,
                    error, inflight, requests, synPath, started >>

-----------------------------------------------------------------------------
(* generate_dianping_content_with_ai / generate_dianping_content *)

GenerateContent ==
    /\ pc = "synth"
    /\ started' = started \cup { "synth" }
    /\ IF FormatPostsRaises(Prefix(ReferenceContent(posts), PromptPosts))
       THEN Raise("TypeError", "generate_dianping_content")
       ELSE pc' = "syn_backend" /\ error' = error
    /\ UNCHANGED << config, env, store, rows, posts, candidates, num_images,
                    selected_images, content, result, inflight, requests,
                    selPath, synPath >>

SynBackend ==
    /\ pc = "syn_backend"
    /\ CallBackend("synth")
    /\ UNCHANGED << config, env, store, rows, posts, candidates, num_images,
                    selected_images, content, result, error, selPath, synPath,
                    started >>

SynCallFails ==
    /\ pc = "syn_wait"
    /\ CallFails("synth")
    /\ UNCHANGED << config, env, store, rows, posts, candidates, num_images,
                    selected_images, content, result, error, requests, selPath,
                    synPath, started >>

SynCallReturns ==
    /\ pc = "syn_wait"
    /\ inflight' = {}
    /\ \E r \in Responses :
         IF ResponseRaises(r)
         THEN /\ pc' = AfterCallFailure("synth")
              /\ UNCHANGED << content, synPath, result >>
         ELSE /\ content' = Strip(r)
              /\ synPath' = "ai"
              /\ result' = Assemble(posts, selected_images, Strip(r))
              /\ pc' = "done"
    /\ UNCHANGED << config, env, store, rows, posts, candidates, num_images,
                    selected_images, error, requests, selPath, started >>

SynFallback ==
    /\ pc = "syn_fallback"
    /\ content' = GenerateTemplateContent(ReferenceContent(posts), Keyword)
    /\ synPath' = "fallback"
    /\ result' = Assemble(posts, selected_images,
                          GenerateTemplateContent(ReferenceContent(posts), Keyword))
    /\ pc' = "done"
    /\ UNCHANGED << config, env, store, rows, posts, candidates, num_images,
                    selected_images, error, inflight, requests, selPath, started >>

Next ==
    \/ CrawlOk
    \/ CrawlFails
    \/ QueryFails
    \/ GetTopPosts
    \/ SelectBestImages
    \/ SelBackend
    \/ SelCallFails
    \/ SelCallReturns
    \/ SelFallback
    \/ GenerateContent
    \/ SynBackend
    \/ SynCallFails
    \/ SynCallReturns
    \/ SynFallback

Spec == Init /\ [][Next]_vars

-----------------------------------------------------------------------------
(* _heuristic_image_selection on its own: any candidate list, any target *)

CandSet ==
    [url : { << >>, << " " >>, urlA, urlB, << " " >> \o urlA },
     post_desc : { << "d" >> }, liked_count : { 1, 2 }, post_url : { 1 }]

InitSel ==
    /\ pc = "sel_fallback"
    /\ candidates \in SeqsUpTo(CandSet, MaxCands)
    /\ num_images \in 0..MaxTarget
    /\ config = ConfigAfterCrawl(CHOOSE c \in Configs : TRUE, Keyword, CrawlMaxPosts)
    /\ env = [openai_api_key |-> Null, HAS_OPENAI |-> FALSE, HAS_REQUESTS |-> FALSE]
    /\ store = << >>
    /\ rows = << >>
    /\ posts = << >>
    /\ selected_images = << >>
    /\ content = << >>
    /\ result = NoResult
    /\ error = NoError
    /\ inflight = {}
    /\ requests = [select |-> 0, synth |-> 0]
    /\ selPath = "none"
    /\ synPath = "none"
    /\ started = { "select" }

NextSel == SelFallback

SpecSel == InitSel /\ [][NextSel]_vars

-----------------------------------------------------------------------------
(* Vocabulary of the properties *)

(* get_top_posts_from_db has returned to run() *)
QueryReturned ==
    /\ pc \notin { "crawl", "query" }
    /\ error.raisedBy \notin { "crawl_xhs_posts", "get_top_posts_from_db" }

(* the store has answered the query (no I/O error) *)
QueryAnswered ==
    /\ pc \notin { "crawl", "query" }
    /\ error.raisedBy # "crawl_xhs_posts"
    /\ error.type # "db"

(* the candidate list is as select_best_images_with_ai built it *)
JustAggregated ==
    \/ pc \in { "sel_backend", "sel_wait", "sel_fallback" }
    \/ error.raisedBy = "analyze_images_content"

CandidateUrls == { candidates[i].url : i \in 1..Len(candidates) }

NoDuplicates(s) == \A i, j \in 1..Len(s) : s[i] = s[j] => i = j

(* number of images of the posts before post i *)
Offset(ps, i) ==
    Cardinality(UNION { { k } \X (1..Len(ps[k].image_list)) : k \in 1..(i - 1) })


-----------------------------------------------------------------------------
(* C1: image selection and text synthesis never raise to run(): whatever    *)
(* the input and the backend do, once selection has been entered the run    *)
(* does not fail, and a selection made by the fallback is the heuristic's   *)
(* output on the candidates.                                                 *)
C1_NeverRaises ==
    /\ error.raisedBy \notin { "analyze_images_content", "generate_dianping_content" }
    /\ "select" \in started => pc # "failed"
    /\ selPath = "fallback" =>
           selected_images = HeuristicImageSelection(candidates, num_images)

-----------------------------------------------------------------------------
(* C2: when the store returns zero posts, run() raises "no data" and no     *)
(* selection, synthesis or backend call is started; and a run never fails   *)
(* with a backend's error.                                                   *)
BackendErrors == { "api error", "timeout", "unreachable", "http status",
                   "malformed json", "requests missing" }

C2_NoDataStopsBeforeAI ==
    /\ (QueryReturned /\ posts = << >>) =>
           /\ pc = "failed"
           /\ error = Err("no data", "run")
           /\ started = {}
           /\ inflight = {}
           /\ requests = [select |-> 0, synth |-> 0]
    /\ pc = "failed" =>
           /\ error.type \notin BackendErrors
           /\ inflight = {}
    /\ (pc = "done" /\ (selPath = "fallback" \/ synPath = "fallback")) =>
           result.total_posts = Len(posts) /\ result.content = content

C2_Witness ==
    /\ pc = "failed"
    /\ error = Err("no data", "run")
    /\ store # << >>
    /\ rows = << >>

-----------------------------------------------------------------------------
(* C3: on the AI path and on the fallback path, every URL of the selection  *)
(* is the URL of one of the candidates.                                      *)
C3_SelectionWithinCandidates ==
    selPath # "none" => Range(selected_images) \subseteq CandidateUrls

-----------------------------------------------------------------------------
(* C4: the fallback selection is the list of distinct non-blank candidate   *)
(* URLs, each placed by its first occurrence in the stable descending order *)
(* of liked count, cut to the target; so it has no duplicate and its length *)
(* is min(target, number of distinct non-blank URLs).                        *)
ExpectedSelection(cands, n) ==
    LET U         == { cands[i].url : i \in { i \in 1..Len(cands) : NonBlank(cands[i].url) } }
        Holders(u) == { i \in 1..Len(cands) : cands[i].url = u }
        Best(u)   == CHOOSE i \in Holders(u) : \A j \in Holders(u) :
                         \/ cands[j].liked_count < cands[i].liked_count
                         \/ cands[j].liked_count = cands[i].liked_count /\ i <= j
        Before(u, v) ==
            \/ cands[Best(u)].liked_count > cands[Best(v)].liked_count
            \/ /\ cands[Best(u)].liked_count = cands[Best(v)].liked_count
               /\ Best(u) < Best(v)
    IN  [k \in 1..Min(n, Cardinality(U)) |->
            CHOOSE u \in U : Cardinality({ v \in U : Before(v, u) }) = k - 1]

DistinctNonBlank(cands) ==
    { u \in { cands[i].url : i \in 1..Len(cands) } : NonBlank(u) }

C4_FallbackSelection ==
    [][pc = "sel_fallback" =>
          /\ selected_images' = ExpectedSelection(candidates, num_images)
          /\ NoDuplicates(selected_images')
          /\ Len(selected_images') =
                 Min(num_images, Cardinality(DistinctNonBlank(candidates)))]_vars

C4_Witness ==
    /\ selPath = "fallback"
    /\ selected_images # << >>
    /\ Len(selected_images) = num_images
    /\ \E i, j \in 1..Len(candidates) :
           i # j /\ candidates[i].url = candidates[j].url /\ NonBlank(candidates[i].url)
    /\ \E i \in 1..Len(candidates) : ~NonBlank(candidates[i].url)

-----------------------------------------------------------------------------
(* C5: the ranked post list is the stable descending sort, by effective     *)
(* (parsed) liked count, of the posts the store supplies for the keyword:   *)
(* sorted, none dropped or duplicated, equal counts in retrieval order.      *)
C5_RankedPermutation ==
    QueryReturned =>
        LET input == SelectSeq(store, LAMBDA r : Qualifies(r, Keyword))
            liked(i) == ParseLikedCount(input[i].liked_count)
            pos(i) == 1 + Cardinality({ j \in 1..Len(input) :
                          liked(j) > liked(i) \/ (liked(j) = liked(i) /\ j < i) })
        IN  /\ Len(posts) = Len(input)
            /\ \A i \in 1..Len(input) :
                   /\ posts[pos(i)].note_id = input[i].note_id
                   /\ posts[pos(i)].liked_count = liked(i)

-----------------------------------------------------------------------------
(* C6: a stored record of the keyword whose liked_count is text that fails  *)
(* the numeric parse ("" included) and whose image list is non-empty is in  *)
(* the ranked list with liked count 0, and its images are candidates.        *)
FailsNumericParse(v) == v # Null /\ (v = << >> \/ PyIntRaises(v))

C6_UnparsableKept ==
    QueryReturned =>
        \A i \in 1..Len(store) :
            ( /\ store[i].source_keyword = Keyword
              /\ FailsNumericParse(store[i].liked_count)
              /\ ParseImageList(store[i].image_list) # << >> )
            => /\ \E k \in 1..Len(posts) :
                      posts[k].note_id = store[i].note_id /\ posts[k].liked_count = 0
               /\ JustAggregated =>
                      Range(ParseImageList(store[i].image_list)) \subseteq CandidateUrls

-----------------------------------------------------------------------------
(* C7: a non-numeric liked_count, comment_count or collected_count becomes  *)
(* 0: get_top_posts_from_db does not raise for it and returns a post for    *)
(* every row of the query.                                                   *)
CoerceToZero(v) == IF PyIntRaises(v) THEN 0 ELSE PyInt(v)

C7_CountsCoerced ==
    QueryAnswered =>
        /\ error.type # "ValueError"
        /\ Len(posts) = Len(rows)
        /\ \A i \in 1..Len(rows) :
               /\ posts[i].liked_count = CoerceToZero(rows[i].liked_count)
               /\ posts[i].comment_count = CoerceToZero(rows[i].comment_count)
               /\ posts[i].collected_count = CoerceToZero(rows[i].collected_count)

-----------------------------------------------------------------------------
(* C8: the candidate list has one candidate per image of the first          *)
(* min(50, number of posts) posts, in post rank order and then image order; *)
(* a URL under two posts gives two candidates.                               *)
C8_AggregatorContract ==
    JustAggregated =>
        LET W == Min(PostWindow, Len(posts))
        IN  /\ Len(candidates) = Offset(posts, W + 1)
            /\ \A i \in 1..W : \A j \in 1..Len(posts[i].image_list) :
                   LET c == candidates[Offset(posts, i) + j]
                   IN  /\ c.url = posts[i].image_list[j]
                       /\ c.post_url = posts[i].note_url
                       /\ c.liked_count = posts[i].liked_count
                       /\ c.post_desc = posts[i].desc

C8_Witness ==
    /\ pc = "sel_backend"
    /\ Len(posts) > PostWindow
    /\ Len(candidates) = PostWindow
    /\ \E i, j \in 1..Len(candidates) :
           /\ candidates[i].url = candidates[j].url
           /\ candidates[i].post_url # candidates[j].post_url

-----------------------------------------------------------------------------
(* C9: no retry: an AI operation issues at most one backend request, a      *)
(* request that fails is followed at once by the fallback with no further   *)
(* request, and at most one request is in flight.                            *)
C9_NoRetry ==
    [][/\ requests'.select <= 1
       /\ requests'.synth <= 1
       /\ Cardinality(inflight') <= 1
       /\ pc = "sel_wait" =>
              \/ pc' = "synth" /\ selPath' = "ai" /\ inflight' = {}
              \/ pc' = "sel_fallback" /\ inflight' = {} /\ requests' = requests
       /\ pc = "sel_fallback" =>
              pc' = "synth" /\ selPath' = "fallback" /\ requests' = requests
                            /\ inflight' = {}
       /\ pc = "syn_wait" =>
              \/ pc' = "done" /\ synPath' = "ai" /\ inflight' = {}
              \/ pc' = "syn_fallback" /\ inflight' = {} /\ requests' = requests
       /\ pc = "syn_fallback" =>
              pc' = "done" /\ synPath' = "fallback" /\ requests' = requests
                           /\ inflight' = {}]_vars

C9_Witness ==
    /\ pc = "done"
    /\ selPath = "fallback"
    /\ synPath = "fallback"
    /\ requests = [select |-> 1, synth |-> 1]

-----------------------------------------------------------------------------
(* C10: after crawl_xhs_posts has returned or raised, every configuration   *)
(* value it overwrote equals its value from before the call.                 *)
C10_ConfigRestored ==
    [][pc = "crawl" => config' = config]_vars

=============================================================================
